---- MODULE Spec2Model ----
(***************************************************************************)
(* Signaling relay of webrtc-missing-codelab (src/server.js): the map of   *)
(* websocket connections, the connection / message / close handlers and    *)
(* the inspection of offers' session descriptions.                         *)
(*                                                                         *)
(* Text is modelled as a sequence of tokens.  A token is either a single   *)
(* character ("m", "=", SP, CR, LF) or a word whose characters no string   *)
(* operation of the program looks into ("audio", "a=extmap:", ...), so     *)
(* split / trim / indexOf / replace on the token sequence do what the      *)
(* JavaScript operations do on the text it spells.                         *)
(***************************************************************************)
EXTENDS Integers, Sequences, FiniteSets, TLC

\* ------------------------------------------------------------------------
\* Bounds of the model
\* ------------------------------------------------------------------------
\* number of transport connections that may be accepted
MaxConns == 2
\* number of message events the relay handles in one run
MaxMessages == 2
\* number of media sections of a generated session description
MaxSections == 2

\* ------------------------------------------------------------------------
\* Characters and words of session descriptions
\* ------------------------------------------------------------------------
SP == "SP"
CR == "CR"
LF == "LF"
CRLF == <<CR, LF>>

\* the denylisted header extensions (server.js 120-123) and one other
extensionsToFilter == {"framemarking-07", "video-timing"}

\* ------------------------------------------------------------------------
\* String operations (String.prototype, as used by the sdp module)
\* ------------------------------------------------------------------------
RECURSIVE indexOf(_, _, _)
\* s.indexOf(pat, from): first position (1-based) of pat in s at or after
\* from, 0 when there is none
indexOf(s, pat, from) ==
    IF from + Len(pat) - 1 > Len(s) THEN 0
    ELSE IF SubSeq(s, from, from + Len(pat) - 1) = pat THEN from
    ELSE indexOf(s, pat, from + 1)

\* s.replace(pat, ''): a string pattern replaces its first occurrence only
replaceFirst(s, pat) ==
    LET i == indexOf(s, pat, 1)
    IN  IF i = 0 THEN s
        ELSE SubSeq(s, 1, i - 1) \o SubSeq(s, i + Len(pat), Len(s))

RECURSIVE split(_, _)
\* s.split(sep), sep not empty
split(s, sep) ==
    LET i == indexOf(s, sep, 1)
    IN  IF i = 0 THEN <<s>>
        ELSE <<SubSeq(s, 1, i - 1)>> \o split(SubSeq(s, i + Len(sep), Len(s)), sep)

isWhiteSpace(t) == t \in {SP, CR, LF}

RECURSIVE trimStart(_)
trimStart(s) ==
    IF s # <<>> /\ isWhiteSpace(Head(s)) THEN trimStart(Tail(s)) ELSE s

RECURSIVE trimEnd(_)
trimEnd(s) ==
    IF s # <<>> /\ isWhiteSpace(s[Len(s)]) THEN trimEnd(SubSeq(s, 1, Len(s) - 1)) ELSE s

\* s.trim()
trim(s) == trimEnd(trimStart(s))

\* s.indexOf(prefix) === 0
startsWith(s, prefix) ==
    Len(s) >= Len(prefix) /\ SubSeq(s, 1, Len(prefix)) = prefix

\* ------------------------------------------------------------------------
\* SDPUtils (the sdp module the server requires, server.js 6)
\* ------------------------------------------------------------------------
\* SDPUtils.splitLines: blob.trim().split('\n').map(line => line.trim())
splitLines(blob) ==
    LET parts == split(trim(blob), <<LF>>)
    IN  [i \in 1..Len(parts) |-> trim(parts[i])]

\* SDPUtils.splitSections: blob.split('\nm=').map((part, index) =>
\*     (index > 0 ? 'm=' + part : part).trim() + '\r\n')
splitSections(blob) ==
    LET parts == split(blob, <<LF, "m", "=">>)
    IN  [i \in 1..Len(parts) |->
            trim(IF i > 1 THEN <<"m", "=">> \o parts[i] ELSE parts[i]) \o CRLF]

\* SDPUtils.getKind: splitLines(section)[0].split(' ')[0].substring(2)
getKind(mediaSection) ==
    LET mline == split(splitLines(mediaSection)[1], <<SP>>)
    IN  SubSeq(mline[1], 3, Len(mline[1]))

\* SDPUtils.matchPrefix: splitLines(blob).filter(line => line.indexOf(prefix) === 0)
matchPrefix(blob, prefix) ==
    LET HasPrefix(line) == startsWith(line, prefix)
    IN  SelectSeq(splitLines(blob), HasPrefix)

\* SDPUtils.parseExtmap(line).uri: line.substring(9).split(' ')[1];
\* 'a=extmap:' is the 9 characters of the first token. <<>> stands for undefined.
parseExtmapUri(line) ==
    LET parts == split(SubSeq(line, 2, Len(line)), <<SP>>)
    IN  IF Len(parts) >= 2 THEN parts[2] ELSE <<>>

\* (variant of isFiltered: every header extension is taken for denylisted)
filterAll(uri) == TRUE

\* extensionsToFilter.includes(extension.uri)
isFiltered(uri) == Len(uri) = 1 /\ uri[1] \in extensionsToFilter

\* ['audio', 'video'].includes(kind)
isAllowedKind(kind) == kind \in {<<"audio">>, <<"video">>}

\* ------------------------------------------------------------------------
\* Inspection of an offer's session description (server.js 95-140)
\* ------------------------------------------------------------------------
\* lines 130-131: remove the line in both variants of the line separator
removeLine(sdp, line) ==
    replaceFirst(replaceFirst(sdp, line \o CRLF), line \o <<LF>>)

RECURSIVE filterExtensions(_, _)
\* lines 125-133: extensions.forEach over the a=extmap: lines of one section
filterExtensions(sdp, extensions) ==
    IF extensions = <<>> THEN sdp
    ELSE LET line == Head(extensions)
         IN  filterExtensions(
                 IF isFiltered(parseExtmapUri(line)) THEN removeLine(sdp, line) ELSE sdp,
                 Tail(extensions))

RECURSIVE inspectSections(_, _, _)
\* lines 98-134: the loop over the media sections; terminate is TRUE when
\* the handler left through ws.terminate() of line 109
inspectSections(sdp, sections, sdpMLineIndex) ==
    IF sdpMLineIndex > Len(sections) THEN [terminate |-> FALSE, sdp |-> sdp]
    ELSE IF ~isAllowedKind(getKind(sections[sdpMLineIndex]))
         THEN [terminate |-> TRUE, sdp |-> sdp]
         ELSE inspectSections(
                  filterExtensions(sdp, matchPrefix(sections[sdpMLineIndex], <<"a=extmap:">>)),
                  sections, sdpMLineIndex + 1)

\* lines 96-97 and the loop, for a description that is a string
mungeSdp(sdp) ==
    inspectSections(sdp, Tail(splitSections(sdp)), 1)

\* ------------------------------------------------------------------------
\* JSON texts and JavaScript values
\* ------------------------------------------------------------------------
\* A JSON literal and a JavaScript value are both [t, v]: t the type, v the
\* tokens of a string or the digits of a number.  undefined also stands for
\* a member that an object text does not have.
undefined == [t |-> "undefined", v |-> <<>>]
null == [t |-> "null", v |-> <<>>]
Str(s) == [t |-> "string", v |-> s]
Num(n) == [t |-> "number", v |-> <<n>>]

\* the member names the texts of the model use
MemberNames == {"id", "type", "sdp", "sdpMLineIndex", "iceServers"}
NoMembers == [k \in MemberNames |-> undefined]

\* a text on the wire: syntax is "object" (members gives its members),
\* "null", "number", "string" (other JSON texts) or "garbage" (no JSON)
Text(syntax, members) == [syntax |-> syntax, members |-> members]
Object(members) == Text("object", members)
NoText == Text("none", NoMembers)

\* JSON.parse of one member's literal: a number literal beyond the range of
\* a double (1e400) is read as Infinity
parseLiteral(lit) ==
    IF lit = Num("1e400") THEN Num("Infinity") ELSE lit

\* JSON.stringify of one property: Infinity is written as null, a property
\* that is undefined is left out
stringifyValue(val) ==
    IF val = Num("Infinity") THEN null ELSE val

\* JSON.parse(message), line 84: threw is TRUE for a SyntaxError; otherwise
\* data is the value, with its properties when it is an object
JSONparse(message) ==
    [threw |-> message.syntax = "garbage",
     type  |-> message.syntax,
     props |-> [k \in MemberNames |-> parseLiteral(message.members[k])]]

\* JSON.stringify(data) of an object, lines 59, 66, 158
JSONstringify(props) ==
    Object([k \in MemberNames |-> stringifyValue(props[k])])

\* (variant of isFalsy: the check of line 89 left out)
neverFalsy(val) == FALSE

\* !x for the values of the model: undefined, null, '' and 0 are falsy
isFalsy(val) ==
    \/ val.t \in {"undefined", "null"}
    \/ val = Str(<<>>)
    \/ val = Num("0")

\* ------------------------------------------------------------------------
\* What clients send
\* ------------------------------------------------------------------------
\* the values generateClientId returns (server.js 38-41); a small set, so
\* that two connections can be given the same one
Ids == {"u1", "u2"}

vLine == <<"v=0">>
mLine(kind) == <<"m", "=", kind, SP, "9">>
extmapLine(n, uri) == <<"a=extmap:", n, SP, uri>>

\* the session part of a description: without and with a session-level
\* header extension
SessionPool ==
    { <<vLine>>,
      <<vLine, extmapLine("2", "framemarking-07")>> }

\* media sections: allowed kinds without and with denylisted extensions, a
\* data-channel section, and an audio section with two lines that are no
\* SDP lines around text that equals a denylisted line
SectionPool ==
    { <<mLine("audio"), extmapLine("1", "abs-send-time")>>,
      <<mLine("audio"), extmapLine("2", "framemarking-07")>>,
      <<mLine("video"), extmapLine("1", "abs-send-time"), extmapLine("3", "video-timing")>>,
      <<mLine("application")>>,
      <<mLine("audio"), <<"m">> \o extmapLine("2", "framemarking-07"),
        <<"=", "application", SP, "9">>, extmapLine("2", "framemarking-07")>> }

\* the two line separators of SDP
Eols == { <<LF>>, CRLF }

RECURSIVE joinLines(_, _)
\* the text of the lines, each followed by eol
joinLines(lines, eol) ==
    IF lines = <<>> THEN <<>>
    ELSE Head(lines) \o eol \o joinLines(Tail(lines), eol)

RECURSIVE flatten(_)
flatten(seqs) ==
    IF seqs = <<>> THEN <<>> ELSE Head(seqs) \o flatten(Tail(seqs))

SectionLists ==
    UNION { [1..n -> SectionPool] : n \in 0..MaxSections }

\* the session descriptions of the model
Docs ==
    { joinLines(session \o flatten(sections), eol) :
        session \in SessionPool, sections \in SectionLists, eol \in Eols }

badDoc == joinLines(<<vLine, mLine("audio"), extmapLine("2", "framemarking-07")>>, CRLF)
appDoc == joinLines(<<vLine, mLine("application")>>, CRLF)

Member(members) ==
    [k \in MemberNames |-> IF k \in DOMAIN members THEN members[k] ELSE undefined]

Offer(dest, sdp) == Object(Member([id |-> dest, type |-> Str(<<"offer">>), sdp |-> sdp]))

\* offers to "u2": the sdp missing, not a string, or a description
Offers ==
    { Offer(Str(<<"u2">>), sdp) :
        sdp \in {undefined, Num("0"), Str(badDoc), Str(appDoc)} }

\* an offer without a destination
OffersNoId ==
    { Offer(undefined, Str(appDoc)) }

\* envelopes of other types
Answers ==
    { Object(Member([id |-> dest, type |-> Str(<<"answer">>), sdp |-> Str(appDoc)])) :
        dest \in {undefined, Str(<<>>), Str(<<"u1">>), Str(<<"u2">>)} }
Candidates ==
    { Object(Member([id |-> Str(<<"u2">>), type |-> Str(<<"candidate">>),
                     sdpMLineIndex |-> n])) :
        n \in {Num("0"), Num("1e400")} }
Hellos ==
    { Object(Member([id |-> Str(<<"u2">>), type |-> Str(<<"hello">>)])) }

\* texts that are no object
NonObjects ==
    { Text(syntax, NoMembers) : syntax \in {"garbage", "null", "number", "string"} }

\* the texts clients send in Spec
Messages == Offers \cup OffersNoId \cup Answers \cup Candidates \cup Hellos \cup NonObjects

\* the texts clients send in SdpSpec: an offer with any description of Docs
SdpOffers == { Offer(Str(<<"u2">>), Str(doc)) : doc \in Docs }

\* ------------------------------------------------------------------------
\* State
\* ------------------------------------------------------------------------
Conns == 1..MaxConns
None == 0

VARIABLES
    connections,  \* the Map of line 32: id -> connection, None when absent
    transport,    \* per connection: "NEW" not accepted yet, "OPEN", "CLOSING"
                  \* after ws.close() (closing handshake running), "DESTROYED"
                  \* after ws.terminate() (socket destroyed, close event not
                  \* yet emitted), "CLOSED" after its close event
    clientId,     \* per connection: the id of line 47, "" before
    listening,    \* per connection: the handlers of lines 73 and 78 are set
    channel,      \* per connection: the texts sent to the client, in order
    crashed,      \* the process died of an uncaught exception
    handled,      \* number of message events handled
    last          \* the last handler run: what it got, logged and sent

vars == <<connections, transport, clientId, listening, channel, crashed, handled, last>>

\* last.log is the console line of the handler run ("" when it logs none of
\* the lines below), last.was the transport of ws when the handler started
Run(handler, ws, message, log, peer, sent) ==
    [handler |-> handler, ws |-> ws, message |-> message, log |-> log,
     peer |-> peer, sent |-> sent,
     was |-> IF ws = None THEN "NEW" ELSE transport[ws]]

Init ==
    /\ connections = [id \in Ids |-> None]
    /\ transport = [c \in Conns |-> "NEW"]
    /\ clientId = [c \in Conns |-> ""]
    /\ listening = [c \in Conns |-> FALSE]
    /\ channel = [c \in Conns |-> <<>>]
    /\ crashed = FALSE
    /\ handled = 0
    /\ last = Run("none", None, NoText, "", None, NoText)

\* ------------------------------------------------------------------------
\* wss.on('connection'), lines 43-76
\* ------------------------------------------------------------------------
\* connections.has(id), lines 50 and 146
has(id) == id \in Ids /\ connections[id] # None

\* the greeting of lines 59-69
hello(id) ==
    JSONstringify(Member([type |-> Str(<<"hello">>), id |-> Str(<<id>>)]))
iceServers ==
    JSONstringify(Member([type |-> Str(<<"iceServers">>),
                          iceServers |-> Str(<<"stun:stun.l.google.com:19302">>)]))

\* (variant of isDuplicate: the check of line 50 left out)
neverDuplicate(id) == FALSE

\* line 50: the generated id is in the map already
isDuplicate(id) == has(id)

\* (variant of close: the socket is left as it is)
closeNothing(state) == state

\* ws.close(), line 52: starts the closing handshake of an open socket
close(state) == IF state = "OPEN" THEN "CLOSING" ELSE state

\* (variant of terminate: the closing handshake of ws.close())
closeInstead(state) == IF state = "OPEN" THEN "CLOSING" ELSE state

\* ws.terminate(), lines 109 and 138: destroys the socket at once
terminate(state) == IF state \in {"OPEN", "CLOSING"} THEN "DESTROYED" ELSE state

\* (variant of send: the text goes before the texts sent earlier)
sendFirst(chan, state, text) == IF state = "OPEN" THEN <<text>> \o chan ELSE chan

\* (variant of send: the text is queued whatever the state of the socket)
sendAlways(chan, state, text) == Append(chan, text)

\* ws.send(text) of the transport: an open socket takes the text, any other
\* reports an error to the callback
send(chan, state, text) == IF state = "OPEN" THEN Append(chan, text) ELSE chan

\* a new transport connection ws is accepted and generateClientId returns id
Connection(ws, id) ==
    /\ ~crashed
    /\ transport[ws] = "NEW"
    /\ \A c \in Conns : c < ws => transport[c] # "NEW"
    /\ id \in Ids
    /\ clientId' = [clientId EXCEPT ![ws] = id]
    /\ IF isDuplicate(id)
       THEN /\ transport' = [transport EXCEPT ![ws] = close("OPEN")]
            /\ last' = Run("connection", ws, NoText, "Duplicate id detected, closing",
                           None, NoText)
            /\ UNCHANGED <<connections, listening, channel>>
       ELSE /\ connections' = [connections EXCEPT ![id] = ws]
            /\ transport' = [transport EXCEPT ![ws] = "OPEN"]
            /\ channel' = [channel EXCEPT
                              ![ws] = send(send(@, "OPEN", hello(id)), "OPEN", iceServers)]
            /\ listening' = [listening EXCEPT ![ws] = TRUE]
            /\ last' = Run("connection", ws, NoText, "", None, NoText)
    /\ UNCHANGED <<crashed, handled>>

\* ------------------------------------------------------------------------
\* ws.on('close'), lines 73-76
\* ------------------------------------------------------------------------
\* (variant of delete: the map is cleared)
deleteAll(map, id) == [k \in DOMAIN map |-> None]

\* (variant of delete: the entry stays)
deleteNothing(map, id) == map

\* connections.delete(id), line 75
delete(map, id) == [map EXCEPT ![id] = None]

\* the transport of ws is gone (the client left, or the relay closed or
\* destroyed it) and its close event is emitted
Close(ws) ==
    /\ ~crashed
    /\ transport[ws] \in {"OPEN", "CLOSING", "DESTROYED"}
    /\ transport' = [transport EXCEPT ![ws] = "CLOSED"]
    /\ IF listening[ws]
       THEN /\ connections' = delete(connections, clientId[ws])
            /\ last' = Run("close", ws, NoText, "Connection closed", None, NoText)
       ELSE /\ UNCHANGED connections
            /\ last' = Run("close", ws, NoText, "", None, NoText)
    /\ UNCHANGED <<clientId, listening, channel, crashed, handled>>

\* ------------------------------------------------------------------------
\* ws.on('message'), lines 78-163
\* ------------------------------------------------------------------------
\* data.type === 'offer', line 94
isOffer(data) == data["type"] = Str(<<"offer">>)

\* lines 96-134 for every description of the model
munged == [doc \in Docs \cup {badDoc, appDoc} |-> mungeSdp(doc)]

\* (variant of sanitize: a description that cannot be inspected passes)
sanitizeFailOpen(sdp) ==
    IF sdp.t # "string"
    THEN [terminate |-> FALSE, log |-> "error while munging SDP", sdp |-> sdp]
    ELSE [terminate |-> munged[sdp.v].terminate,
          log |-> IF munged[sdp.v].terminate THEN "unknown media type detected" ELSE "",
          sdp |-> Str(munged[sdp.v].sdp)]

\* lines 94-141 for the value of data.sdp: a value that is no string makes
\* splitSections throw, and the catch of line 135 terminates as well
sanitize(sdp) ==
    IF sdp.t # "string"
    THEN [terminate |-> TRUE, log |-> "error while munging SDP", sdp |-> sdp]
    ELSE LET r == munged[sdp.v]
         IN  [terminate |-> r.terminate,
              log |-> IF r.terminate THEN "unknown media type detected" ELSE "",
              sdp |-> Str(r.sdp)]

\* the key data.id is for the map: the keys of the map are strings
keyOf(val) == IF val.t = "string" /\ Len(val.v) = 1 THEN val.v[1] ELSE ""

\* connections.get(data.id), line 152
get(id) == connections[id]

\* data.id = id, line 157
stamp(data, id) == [data EXCEPT !["id"] = Str(<<id>>)]

\* what the handler does with a text: the line it logs, whether it leaves
\* through an uncaught exception, whether it calls ws.terminate(), and the
\* peer and text of its peer.send
Outcome(log, crash, term, peer, text) ==
    [log |-> log, crash |-> crash, terminate |-> term, peer |-> peer, text |-> text]

\* (variant of peerNotFound: the sender is disconnected as for a bad offer)
peerNotFoundTerminate == Outcome("peer not found", FALSE, TRUE, None, NoText)

\* lines 146-151: the destination is not in the map
peerNotFound == Outcome("peer not found", FALSE, FALSE, None, NoText)

onMessage(ws, message) ==
    LET parsed == JSONparse(message)
        data == parsed.props
    IN  IF parsed.threw
        THEN Outcome("invalid json", FALSE, FALSE, None, NoText)
        ELSE IF parsed.type = "null"
        \* line 89 reads a property of null: a TypeError nothing catches
        THEN Outcome("uncaught TypeError", TRUE, FALSE, None, NoText)
        ELSE IF isFalsy(data["id"])
        THEN Outcome("missing id", FALSE, FALSE, None, NoText)
        ELSE LET checked == IF isOffer(data) THEN sanitize(data["sdp"])
                           ELSE [terminate |-> FALSE, log |-> "", sdp |-> data["sdp"]]
                 key == keyOf(data["id"])
             IN  IF checked.terminate
                 THEN Outcome(checked.log, FALSE, TRUE, None, NoText)
                 ELSE IF ~has(key)
                 THEN peerNotFound
                 ELSE Outcome(
                          IF transport[get(key)] = "OPEN" THEN "" ELSE "failed to send to peer",
                          FALSE, FALSE, get(key),
                          JSONstringify(stamp([data EXCEPT !["sdp"] = checked.sdp],
                                              clientId[ws])))

\* a text of the client of ws arrives.  The receiver may still hand over
\* texts it had buffered when the handler destroyed the socket.
Message(ws, message) ==
    /\ ~crashed
    /\ listening[ws]
    /\ transport[ws] \in {"OPEN", "DESTROYED"}
    /\ handled < MaxMessages
    /\ LET o == onMessage(ws, message)
       IN  /\ crashed' = o.crash
           /\ transport' = IF o.terminate
                           THEN [transport EXCEPT ![ws] = terminate(@)]
                           ELSE transport
           /\ channel' = IF o.peer # None
                         THEN [channel EXCEPT ![o.peer] = send(@, transport[o.peer], o.text)]
                         ELSE channel
           /\ last' = Run("message", ws, message, o.log, o.peer, o.text)
    /\ handled' = handled + 1
    /\ UNCHANGED <<connections, clientId, listening>>

Next ==
    \/ \E ws \in Conns, id \in Ids : Connection(ws, id)
    \/ \E ws \in Conns, message \in Messages : Message(ws, message)
    \/ \E ws \in Conns : Close(ws)

\* the relay with the texts of Messages
Spec == Init /\ [][Next]_vars

NextSdp ==
    \/ \E ws \in Conns, id \in Ids : Connection(ws, id)
    \/ \E ws \in Conns, message \in SdpOffers : handled = 0 /\ Message(ws, message)
    \/ \E ws \in Conns : Close(ws)

\* the relay handling one offer, with every description of Docs
SdpSpec == Init /\ [][NextSdp]_vars

\* the close event of a socket the relay closed or destroyed
CloseEvent(ws) == transport[ws] # "OPEN" /\ Close(ws)

\* the texts clients send in LiveSpec: the offers, and the text null
LiveMessages == Offers \cup { Text("null", NoMembers) }

NextLive ==
    \/ \E ws \in Conns, id \in Ids : Connection(ws, id)
    \/ \E ws \in Conns, message \in LiveMessages : Message(ws, message)
    \/ \E ws \in Conns : Close(ws)

\* the relay where the transport emits the close event of every socket the
\* relay closed or destroyed (a client may stay for ever)
LiveSpec == Init /\ [][NextLive]_vars /\ \A ws \in Conns : WF_vars(CloseEvent(ws))

\* ------------------------------------------------------------------------
\* Vocabulary of the properties
\* ------------------------------------------------------------------------
\* the step is a run of the message handler
MessageStep == handled' = handled + 1

\* the last handler run passed a text to an open peer
Delivered == last.handler = "message" /\ last.peer # None /\ last.log = ""

\* the text is an object with a destination (a truthy id)
Addressed(message) ==
    message.syntax = "object" /\ ~isFalsy(JSONparse(message).props["id"])

IsOfferText(message) == message.members["type"] = Str(<<"offer">>)

RECURSIVE physicalLines(_)
\* the lines of a description, each with its line separator
physicalLines(doc) ==
    LET i == indexOf(doc, <<LF>>, 1)
    IN  IF doc = <<>> THEN <<>>
        ELSE IF i = 0 THEN <<doc>>
        ELSE <<SubSeq(doc, 1, i)>> \o physicalLines(SubSeq(doc, i + 1, Len(doc)))

\* a physical line without its line separator
lineBody(line) ==
    LET noLF == IF line # <<>> /\ line[Len(line)] = LF
                THEN SubSeq(line, 1, Len(line) - 1) ELSE line
    IN  IF noLF # <<>> /\ noLF[Len(noLF)] = CR
        THEN SubSeq(noLF, 1, Len(noLF) - 1) ELSE noLF

\* the line is m=<kind> ... with a kind other than audio and video
IsDisallowedMediaLine(line) ==
    LET body == lineBody(line)
    IN  /\ Len(body) >= 3
        /\ body[1] = "m" /\ body[2] = "="
        /\ body[3] \notin {"audio", "video"}

HasDisallowedSection(doc) ==
    \E i \in 1..Len(physicalLines(doc)) : IsDisallowedMediaLine(physicalLines(doc)[i])

\* the line is a=extmap:<n> <uri> with a denylisted uri
IsDenylistedLine(line) ==
    LET body == lineBody(line)
    IN  /\ Len(body) >= 4
        /\ body[1] = "a=extmap:" /\ body[3] = SP
        /\ body[4] \in extensionsToFilter

HasDenylistedLine(doc) ==
    \E i \in 1..Len(physicalLines(doc)) : IsDenylistedLine(physicalLines(doc)[i])

\* the description with every denylisted line, separator included, left out
WithoutDenylistedLines(doc) ==
    LET Keep(line) == ~IsDenylistedLine(line)
    IN  flatten(SelectSeq(physicalLines(doc), Keep))

\* ------------------------------------------------------------------------
\* C1..C20
\* ------------------------------------------------------------------------
\* C1: an offer whose description has a media section of a kind other than
\* audio and video terminates its sender and nothing is sent to any peer, and
\* no offer that is delivered to a peer has such a section.
C1_NoDisallowedKindDelivered ==
    (last.handler = "message" /\ Addressed(last.message) /\ IsOfferText(last.message)
        /\ last.message.members["sdp"].t = "string")
    => /\ HasDisallowedSection(last.message.members["sdp"].v)
            => (transport[last.ws] = "DESTROYED" /\ last.peer = None)
       /\ Delivered => ~HasDisallowedSection(last.sent.members["sdp"].v)

\* C2: a delivered offer whose description has a denylisted a=extmap: line
\* carries the sender's description with exactly these lines, line separator
\* included, removed, wherever the lines are and for LF and for CRLF.
C2_ExactlyDenylistedLinesRemoved ==
    (Delivered /\ IsOfferText(last.message)
        /\ HasDenylistedLine(last.message.members["sdp"].v))
    => last.sent.members["sdp"] =
           Str(WithoutDenylistedLines(last.message.members["sdp"].v))

\* C3: a text that is no offer, sent by A to an id the map holds for B, adds
\* to B's channel exactly one text, which is A's text with A's id as id and
\* every other member as A sent it; any text a message run delivers carries
\* the id of the connection that sent it.
C3_ForwardedWithSenderId ==
    [][MessageStep =>
        LET ws == last'.ws
            sentBy == last'.message
            key == keyOf(sentBy.members["id"])
        IN  /\ (Addressed(sentBy) /\ ~IsOfferText(sentBy) /\ has(key))
                => channel' = [channel EXCEPT ![connections[key]] =
                       Append(@, Object([sentBy.members EXCEPT
                                            !["id"] = Str(<<clientId[ws]>>)]))]
            /\ \A c \in Conns : channel'[c] # channel[c]
                => channel'[c][Len(channel'[c])].members["id"] = Str(<<clientId[ws]>>)
      ]_vars

\* the sanitizer rejects the text: an offer whose description is missing, is
\* no string or has a media section of a kind other than audio and video
Rejected(message) ==
    /\ IsOfferText(message)
    /\ \/ message.members["sdp"].t # "string"
       \/ HasDisallowedSection(message.members["sdp"].v)

\* the first two texts a registered connection gets
Greeting(id) == <<hello(id), iceServers>>

\* C4 (as stated): a text addressed to an id the map does not hold is not
\* forwarded and leaves its sender open and registered, whatever its type.
C4_AbsentDestinationLeavesSenderOpen ==
    [][(MessageStep /\ Addressed(last'.message)
          /\ ~has(keyOf(last'.message.members["id"])))
        => /\ channel' = channel
           /\ connections' = connections
           /\ transport[last'.ws] = "OPEN" => transport'[last'.ws] = "OPEN"
      ]_vars

\* C4 (amended): a text addressed to an id the map does not hold is not
\* forwarded, then or later: the run changes no channel and no map entry, a
\* connection that registers later gets only its greeting, and no other step
\* adds a text.  The sender's transport is left as it was, unless the text
\* is an offer the sanitizer rejects: that offer terminates the sender.
C4_AbsentDestinationDropped ==
    [][/\ (MessageStep /\ Addressed(last'.message)
             /\ ~has(keyOf(last'.message.members["id"])))
          => /\ channel' = channel
             /\ connections' = connections
             /\ listening' = listening
             /\ transport' = IF Rejected(last'.message)
                             THEN [transport EXCEPT ![last'.ws] = "DESTROYED"]
                             ELSE transport
       /\ ~MessageStep
          => \A c \in Conns :
                \/ channel'[c] = channel[c]
                \/ /\ transport[c] = "NEW" /\ channel[c] = <<>>
                   /\ channel'[c] = Greeting(clientId'[c])
      ]_vars

\* a run found no peer for an offer and left its sender open
C4_Witness ==
    /\ last.handler = "message" /\ last.log = "peer not found"
    /\ IsOfferText(last.message)
    /\ transport[last.ws] = "OPEN"
    /\ connections[clientId[last.ws]] = last.ws

\* C5: the map holds a connection under its id until that connection's own
\* close event: an entry changes only by being removed when the close event
\* of the connection it holds is handled, so a connection whose generated id
\* collides is not stored, and its close event removes nothing.
C5_EntryKeptUntilOwnClose ==
    [][\A id \in Ids :
          LET c == connections[id]
          IN  c # None
              => \/ connections'[id] = c
                 \/ /\ connections'[id] = None
                    /\ transport[c] # "CLOSED" /\ transport'[c] = "CLOSED"
      ]_vars

\* a connection got the id of a stored one, was closed, and the entry is still
\* the first connection's
C5_Witness ==
    \E c \in Conns, d \in Conns :
        /\ c # d /\ clientId[c] = clientId[d] /\ clientId[c] \in Ids
        /\ connections[clientId[c]] = c
        /\ ~listening[d] /\ transport[d] = "CLOSED"

\* C6: a registered connection gets hello with its own id and then
\* iceServers as the first two texts of its channel, and no other text of
\* type hello.
C6_GreetingFirstAndHelloOnce ==
    \A c \in Conns :
        listening[c]
        => /\ Len(channel[c]) >= Len(Greeting(clientId[c]))
           /\ SubSeq(channel[c], 1, Len(Greeting(clientId[c]))) = Greeting(clientId[c])
           /\ \A i \in 1..Len(channel[c]) :
                  channel[c][i].members["type"] = Str(<<"hello">>) => i = 1

\* C7: a connection whose generated id is in the map already is closed at
\* once, is not stored and gets no handlers; nothing is ever sent to it (no
\* hello, no iceServers, no forwarded text), no text of it is ever handled,
\* and its transport is never open again.
C7_DuplicateGetsNothing ==
    [][/\ \A ws \in Conns :
            (transport[ws] = "NEW" /\ transport'[ws] # "NEW" /\ has(clientId'[ws]))
            => /\ transport'[ws] \in {"CLOSING", "CLOSED"}
               /\ ~listening'[ws]
               /\ channel'[ws] = <<>>
               /\ connections' = connections
       /\ \A d \in Conns :
            (transport[d] # "NEW" /\ ~listening[d])
            => /\ ~listening'[d]
               /\ channel'[d] = <<>>
               /\ transport'[d] \in {"CLOSING", "CLOSED"}
               /\ \A id \in Ids : connections'[id] # d
               /\ MessageStep => (last'.ws # d /\ last'.peer # d)
      ]_vars

\* a text addressed to the id of a duplicate connection was delivered while
\* the duplicate was there; it went to the stored connection
C7_Witness ==
    \E c \in Conns, d \in Conns :
        /\ c # d /\ clientId[c] = clientId[d]
        /\ transport[d] = "CLOSING" /\ channel[d] = <<>>
        /\ Delivered /\ last.peer = c
        /\ keyOf(last.message.members["id"]) = clientId[d]

\* C8: a text that is no object with a destination (no JSON; JSON that is no
\* object, as null, a number or a string; an object whose id is missing or
\* empty) is discarded: nothing is sent, the map and every transport stay
\* as they are, and the process goes on.
C8_MalformedDiscarded ==
    [][(MessageStep /\ ~Addressed(last'.message))
        => /\ channel' = channel
           /\ connections' = connections
           /\ transport' = transport
           /\ listening' = listening
           /\ ~crashed'
      ]_vars

\* C9: an offer whose sdp is missing or is no string makes the inspection
\* fail: the sender's transport is destroyed and nothing is sent to any peer.
C9_UninspectableOfferFailsClosed ==
    [][(MessageStep /\ Addressed(last'.message) /\ IsOfferText(last'.message)
          /\ last'.message.members["sdp"].t # "string")
        => /\ transport'[last'.ws] = "DESTROYED"
           /\ channel' = channel
           /\ last'.peer = None /\ last'.sent = NoText
      ]_vars

\* an offer without sdp for a registered, open peer destroyed its sender
C9_Witness ==
    /\ last.handler = "message" /\ last.log = "error while munging SDP"
    /\ last.message.members["sdp"] = undefined
    /\ has(keyOf(last.message.members["id"]))
    /\ transport[connections[keyOf(last.message.members["id"])]] = "OPEN"
    /\ connections[keyOf(last.message.members["id"])] # last.ws
    /\ transport[last.ws] = "DESTROYED"

\* the entry of the connection was removed: its close handler has run
Removed(c) == listening[c] /\ transport[c] = "CLOSED"

\* C10: once the entry of a connection has been removed, the map does not
\* hold the connection, no handler run passes a text to it, and its channel
\* gets no text.
C10_NothingSentAfterRemoval ==
    [][\A c \in Conns :
          Removed(c)
          => /\ \A id \in Ids : connections[id] # c /\ connections'[id] # c
             /\ channel'[c] = channel[c]
             /\ MessageStep => last'.peer # c
      ]_vars

\* the id of a removed connection was registered again, and a text addressed
\* to it was delivered to the new connection
C10_Witness ==
    \E c \in Conns :
        /\ Removed(c)
        /\ Delivered
        /\ keyOf(last.message.members["id"]) = clientId[c]
        /\ last.peer # c

\* ws.terminate() was called on the registered connection, or its transport
\* is gone
Ended(c) == listening[c] /\ transport[c] \in {"DESTROYED", "CLOSED"}

\* the map holds the connection
Registered(c) == \E id \in Ids : connections[id] = c

\* C11: a connection is put into the map at most once (only when it is
\* accepted, and it is accepted once); a registered connection whose
\* transport is closed or destroyed by the relay has its entry removed
\* eventually, given its close event is delivered to the running process, and
\* the map never holds it again; removing an id the map does not hold changes
\* nothing.
C11_InsertedOnceRemovedForGood ==
    /\ [][\A c \in Conns :
            /\ (~Registered(c) /\ Registered(c)') => transport[c] = "NEW"
            /\ transport[c] # "NEW" => transport'[c] # "NEW"
            /\ (Ended(c) /\ ~Registered(c)) => ~Registered(c)'
         ]_vars
    /\ [](\A id \in Ids :
            /\ delete(delete(connections, id), id) = delete(connections, id)
            /\ ~has(id) => delete(connections, id) = connections)
    /\ \A c \in Conns : Ended(c) ~> (~Registered(c) \/ crashed)

\* the relay destroyed a registered connection, and its close event removed
\* its entry
C11_Witness ==
    /\ last.handler = "close" /\ last.was = "DESTROYED"
    /\ Ended(last.ws) /\ ~Registered(last.ws)
    /\ ~has(clientId[last.ws])

\* the text is an offer whose description has media sections of the kinds
\* audio and video only and no denylisted a=extmap: line
CleanOffer(message) ==
    /\ IsOfferText(message)
    /\ message.members["sdp"].t = "string"
    /\ ~HasDisallowedSection(message.members["sdp"].v)
    /\ ~HasDenylistedLine(message.members["sdp"].v)

\* C12: an offer whose media sections are all audio or video and that has no
\* denylisted a=extmap: line leaves every transport as it is (the sender stays
\* open), and the text passed to the peer the map holds for its destination
\* carries the sdp exactly as the sender sent it.
C12_CleanOfferUnchanged ==
    [][(MessageStep /\ Addressed(last'.message) /\ CleanOffer(last'.message))
        => LET key == keyOf(last'.message.members["id"])
           IN  /\ transport' = transport
               /\ has(key)
                    => /\ last'.peer = get(key)
                       /\ last'.sent.members["sdp"] = last'.message.members["sdp"]
                       /\ transport[get(key)] = "OPEN"
                            => channel' = [channel EXCEPT ![get(key)] = Append(@, last'.sent)]
      ]_vars

\* an offer with an audio section and a header extension that is not
\* denylisted was delivered unchanged, and its sender is open
C12_Witness ==
    /\ Delivered /\ CleanOffer(last.message)
    /\ indexOf(last.message.members["sdp"].v, <<"a=extmap:">>, 1) > 0
    /\ indexOf(last.message.members["sdp"].v, mLine("audio"), 1) > 0
    /\ last.sent.members["sdp"] = last.message.members["sdp"]
    /\ transport[last.ws] = "OPEN"

\* the text as its sender sent it, with the sender's id as id
Stamped(message, ws) ==
    Object([message.members EXCEPT !["id"] = Str(<<clientId[ws]>>)])

\* C13: only a text of type offer is inspected, and only its sdp changes: a
\* text of another type (answer, candidate, any other) never terminates its
\* sender, whatever sdp it carries, and what is passed to the peer the map
\* holds for its destination is the text with every member other than id as
\* sent; what is passed on of an offer has every member other than id and sdp
\* as sent.
C13_OnlyOffersInspected ==
    [][(MessageStep /\ Addressed(last'.message))
        => LET sentBy == last'.message
               key == keyOf(sentBy.members["id"])
           IN  /\ ~IsOfferText(sentBy)
                    => /\ transport' = transport
                       /\ has(key)
                            => /\ last'.peer = get(key)
                               /\ last'.sent = Stamped(sentBy, last'.ws)
               /\ (IsOfferText(sentBy) /\ last'.peer # None)
                    => \A k \in MemberNames \ {"id", "sdp"} :
                           last'.sent.members[k] = sentBy.members[k]
      ]_vars

\* the step is the connection handler finding the id of ws in the map
DuplicateStep(ws) ==
    transport[ws] = "NEW" /\ transport'[ws] # "NEW" /\ ~listening'[ws]

\* the step is a message run of ws that the sanitizer ends
ViolationStep(ws) ==
    /\ MessageStep /\ last'.ws = ws
    /\ last'.log \in {"unknown media type detected", "error while munging SDP"}

\* C14 (as stated): when the relay ends a connection, for a sanitizer
\* violation and for a duplicate id alike, the transport is destroyed at once,
\* without a closing handshake.
C14_ForcedTerminationImmediate ==
    [][\A ws \in Conns :
          (DuplicateStep(ws) \/ ViolationStep(ws)) => transport'[ws] = "DESTROYED"
      ]_vars

\* C14 (amended): for a sanitizer violation the transport of the sender is
\* destroyed at once and never runs a closing handshake; for a duplicate id
\* the relay starts the closing handshake, and that transport is never
\* destroyed: it stays closing until its close event.
C14_ViolationDestroysDuplicateCloses ==
    [][\A ws \in Conns :
          /\ ViolationStep(ws) => transport'[ws] = "DESTROYED"
          /\ listening[ws] => transport'[ws] # "CLOSING"
          /\ DuplicateStep(ws) => transport'[ws] = "CLOSING"
          /\ transport[ws] = "CLOSING" => transport'[ws] \in {"CLOSING", "CLOSED"}
      ]_vars

\* a connection with a duplicate id is closing while the sanitizer has
\* destroyed the open connection of a sender
C14_Witness ==
    /\ \E d \in Conns : ~listening[d] /\ transport[d] = "CLOSING"
    /\ last.handler = "message" /\ last.log = "unknown media type detected"
    /\ last.was = "OPEN" /\ transport[last.ws] = "DESTROYED"

\* the step is a message run whose peer.send reported an error
SendFailedStep == MessageStep /\ last'.log = "failed to send to peer"

\* C15: a run whose send to the peer fails only logs: the map, every
\* transport (the sender's and the peer's), the handlers and every channel
\* (no text for the peer, none for the sender) are as before and the process
\* goes on; the text is not sent later either: the channel of a connection
\* whose transport is destroyed or closed gets no text any more.
C15_SendFailureOnlyLogged ==
    [][/\ SendFailedStep
            => /\ last'.peer # None /\ transport[last'.peer] # "OPEN"
               /\ UNCHANGED <<connections, transport, clientId, listening, channel, crashed>>
       /\ \A c \in Conns :
            transport[c] \in {"DESTROYED", "CLOSED"} => channel'[c] = channel[c]
      ]_vars

\* an open sender's text for a peer that the relay has destroyed and that
\* is still in the map was not sent; the peer has its greeting only
C15_Witness ==
    /\ last.handler = "message" /\ last.log = "failed to send to peer"
    /\ last.peer # last.ws /\ transport[last.ws] = "OPEN"
    /\ transport[last.peer] = "DESTROYED"
    /\ connections[clientId[last.peer]] = last.peer
    /\ channel[last.peer] = Greeting(clientId[last.peer])

\* the text is an object without the member id
NoDestination(message) ==
    message.syntax = "object" /\ message.members["id"] = undefined

\* the text is an object whose id is a string that is not empty
HasDestination(message) ==
    /\ message.syntax = "object"
    /\ message.members["id"].t = "string" /\ message.members["id"].v # <<>>

SanitizerLogs == {"unknown media type detected", "error while munging SDP"}

\* C16: the checks run in the order parse, destination id, inspection of an
\* offer, lookup.  An offer the sanitizer would reject that has no id is
\* dropped as "missing id": nothing is sent, and the sender's transport, the
\* map and the process are as before.  With an id it terminates its sender and
\* nothing is sent, whether the map holds the id or not.
C16_ChecksInOrder ==
    [][(MessageStep /\ Rejected(last'.message))
        => /\ NoDestination(last'.message)
                => /\ last'.log = "missing id"
                   /\ UNCHANGED <<connections, transport, listening, channel, crashed>>
           /\ HasDestination(last'.message)
                => /\ last'.log \in SanitizerLogs
                   /\ transport' = [transport EXCEPT ![last'.ws] = "DESTROYED"]
                   /\ last'.peer = None
                   /\ UNCHANGED <<connections, listening, channel, crashed>>
      ]_vars

\* an offer with a data-channel section and no id left its open sender open,
\* while another connection is destroyed (only a rejected offer with an id
\* does that)
C16_Witness ==
    /\ last.handler = "message" /\ last.log = "missing id"
    /\ Rejected(last.message) /\ NoDestination(last.message)
    /\ last.was = "OPEN" /\ transport[last.ws] = "OPEN"
    /\ \E c \in Conns : c # last.ws /\ transport[c] = "DESTROYED"

\* C17: every step is one whole handler run, and texts reach a channel in the
\* order of the runs that send them: a step keeps what every channel holds
\* and adds at its end only; a message run that delivers adds exactly its
\* text at the end of its peer's channel and nothing to any other, and no
\* message run changes the map, so the lookup and the send of one run see the
\* same map.  So of two texts of A forwarded to B, the one handled first is
\* first in B's channel.
C17_ForwardingKeepsOrder ==
    [][/\ \A c \in Conns :
            /\ Len(channel'[c]) >= Len(channel[c])
            /\ SubSeq(channel'[c], 1, Len(channel[c])) = channel[c]
       /\ MessageStep
            => /\ connections' = connections
               /\ \A c \in Conns :
                    channel'[c] = IF c = last'.peer /\ last'.log = ""
                                  THEN Append(channel[c], last'.sent)
                                  ELSE channel[c]
      ]_vars

\* B's channel holds its greeting and then two different texts of A, the
\* one of the last run last
C17_Witness ==
    \E a \in Conns, b \in Conns :
        /\ a # b /\ handled = 2
        /\ Len(channel[b]) = 4
        /\ SubSeq(channel[b], 1, 2) = Greeting(clientId[b])
        /\ channel[b][3] # channel[b][4]
        /\ channel[b][3].members["id"] = Str(<<clientId[a]>>)
        /\ channel[b][4].members["id"] = Str(<<clientId[a]>>)
        /\ Delivered /\ last.ws = a /\ last.peer = b /\ last.sent = channel[b][4]

\* C18: the relay passes a text only to a connection whose transport is
\* open: every connection a message run finds in the map for its destination
\* and calls send on is open, also while a connection the relay has
\* destroyed waits for its close event.
C18_ForwardOnlyToOpen ==
    [][(MessageStep /\ last'.peer # None) => transport[last'.peer] = "OPEN"]_vars

\* C19: once the sanitizer has made the relay destroy the transport of a
\* sender, no text of that sender that is handled afterwards (it had arrived
\* before) is passed on: such a run adds no text to any channel.
C19_NothingForwardedAfterTermination ==
    [][(MessageStep /\ transport[last'.ws] = "DESTROYED") => channel' = channel]_vars

\* the step is the close event of ws
CloseStep(ws) == transport[ws] # "CLOSED" /\ transport'[ws] = "CLOSED"

\* C20: the close event of a connection removes the entry of that connection
\* and nothing else: no channel gets a text, every other entry of the map
\* stays, and the transport and the handlers of every other connection are
\* as before.
C20_CloseRemovesOwnEntryOnly ==
    [][\A ws \in Conns :
          CloseStep(ws)
          => /\ channel' = channel
             /\ \A id \in Ids :
                    connections'[id] = IF connections[id] = ws THEN None ELSE connections[id]
             /\ \A c \in Conns \ {ws} : transport'[c] = transport[c]
             /\ UNCHANGED <<clientId, listening, crashed, handled>>
      ]_vars

\* the close event of a connection that had a text forwarded to an open peer
\* has removed its entry; the peer is registered and open and has got its
\* greeting and that text only
C20_Witness ==
    \E b \in Conns :
        /\ last.handler = "close" /\ b # last.ws
        /\ listening[last.ws] /\ ~Registered(last.ws)
        /\ Registered(b) /\ transport[b] = "OPEN"
        /\ Len(channel[b]) = 3
        /\ channel[b][3].members["id"] = Str(<<clientId[last.ws]>>)

====
